---- MODULE Spec2Model ----
(***************************************************************************)
(* Thread-count and delay calculation of the batch engine                  *)
(* (src/src/lib/thread-utils.ts).                                          *)
(*                                                                         *)
(* The state holds the objects the functions are handed (the Target, the   *)
(* Server object it references, the Metrics of the controller) and the     *)
(* record of the call in progress: which function ran, what the ns.* API   *)
(* returned to it, which ns.* functions it invoked and what it returned.   *)
(* A call starts when no call is in progress and ends when the caller has  *)
(* taken the result.                                                       *)
(*                                                                         *)
(* Numbers: durations and delays are whole time units.  Every other JS     *)
(* number is an exact rational [k, n, d] (k = "fin", n/d with d > 0), or   *)
(* k = "inf" (n is the sign) or k = "nan", as IEEE division produces them. *)
(***************************************************************************)
EXTENDS Integers, Sequences, FiniteSets, TLC

\* ---- bounds of the model ------------------------------------------------
MaxTime == 3          \* durations range over 0..MaxTime
MaxDelay == 2         \* metrics.taskDelay ranges over 1..MaxDelay
GreedDen == 2         \* metrics.greed ranges over 1/GreedDen .. GreedDen/GreedDen
MaxMoney == 2         \* moneyMax ranges over 1..MaxMoney
MaxSec == 1           \* security levels range over 1..MaxSec (and FullSec)
MaxSkill == 1         \* player skill 1..MaxSkill, required skill 1..MaxSkill+1
MaxMult == 1          \* player multipliers range over 1..MaxMult
MaxGrowth == 1        \* ns.getServerGrowth ranges over GrowthStep * (1..MaxGrowth)
MaxOracleGrow == 1    \* oracle growThreads ranges over halves 0/2..MaxOracleGrow/2
MaxThreads == 60      \* thread counts fed to the two weaken ratios

\* ---- program constants --------------------------------------------------
FullSec == 100            \* (100 - hackDifficulty) / 100
balanceFactor == 240
HackPerWeaken == 25       \* 1x weaken == 25x hacks
GrowPerWeakenTwice == 25  \* 12.5 == 25 / 2
BaseGrowthMicro == 3000   \* baseGrowthRate - 1 == 0.003, in 1e-6
GrowthCapMicro == 3500    \* 1.0035 - 1, in 1e-6
GrowthStep == 50          \* server growth readings are multiples of 50

\* ---- JS numbers ---------------------------------------------------------
Fin(n, d) == [k |-> "fin", n |-> n, d |-> d]
Whole(n) == Fin(n, 1)
Inf(s) == [k |-> "inf", n |-> s, d |-> 0]
NaN == [k |-> "nan", n |-> 0, d |-> 0]

Sign(n) == IF n > 0 THEN 1 ELSE IF n < 0 THEN -1 ELSE 0

\* x / y
Div(x, y) ==
  IF x.k = "nan" \/ y.k = "nan" THEN NaN
  ELSE IF x.k = "inf" THEN (IF y.k = "inf" THEN NaN
                            ELSE Inf(IF y.n < 0 THEN -x.n ELSE x.n))
  ELSE IF y.k = "inf" THEN Whole(0)
  ELSE IF y.n = 0 THEN (IF x.n = 0 THEN NaN ELSE Inf(Sign(x.n)))
  ELSE Fin(x.n * y.d * Sign(y.n), x.d * y.n * Sign(y.n))

\* x * y
Mul(x, y) ==
  IF x.k = "fin" /\ y.k = "fin" THEN Fin(x.n * y.n, x.d * y.d)
  ELSE IF x.k = "nan" \/ y.k = "nan" THEN NaN
  ELSE IF x.n = 0 \/ y.n = 0 THEN NaN
  ELSE Inf(Sign(x.n) * Sign(y.n))

MathFloor(x) == IF x.k = "fin" THEN Whole(x.n \div x.d) ELSE x

MathCeil(x) == IF x.k = "fin" THEN Whole(-((-x.n) \div x.d)) ELSE x

Min(a, b) == IF a < b THEN a ELSE b

Max(a, b) == IF a > b THEN a ELSE b

\* clamp of /lib/misc on a finite rational
clamp(x, lo, hi) ==
  IF x.n < lo * x.d THEN Whole(lo)
  ELSE IF x.n > hi * x.d THEN Whole(hi)
  ELSE x

\* Math.log of a whole number, in 1e-3
LnTable == <<0, 693, 1099, 1386, 1609, 1792, 1946, 2079, 2197, 2303, 2398, 2485>>

MathLogMilli(n, d) == LnTable[n] - LnTable[d]

\* Math.log(1 + e) for a small e given in 1e-6, in 1e-6
MathLogNearOneMicro(e) == e - (e * e) \div 2000000

VARIABLES target, heap, metrics, call, readings, apiCalls, ret

vars == <<target, heap, metrics, call, readings, apiCalls, ret>>

Return(v) == [kind |-> "return", val |-> v]

\* ---- domains ------------------------------------------------------------
Times == 0..MaxTime
SecLevels == 1..MaxSec
Greeds == {Fin(g, GreedDen) : g \in 1..GreedDen}
Servers == [moneyAvailable : 0..MaxMoney, hackDifficulty : SecLevels]
Targets == [server : {"srv"}, moneyMax : 1..MaxMoney,
            moneyAvailable : 0..MaxMoney, hackDifficulty : SecLevels \cup {FullSec}]

Init ==
  /\ target \in {t \in Targets : t.moneyAvailable <= t.moneyMax}
  /\ heap \in {[o \in {"srv"} |-> s] : s \in {s \in Servers : s.moneyAvailable <= target.moneyMax}}
  /\ metrics \in [greed : Greeds, taskDelay : 1..MaxDelay]
  /\ call = "none"
  /\ readings = [none |-> TRUE]
  /\ apiCalls = {}
  /\ ret = Return(<<>>)

\* ---- calculateDelays ----------------------------------------------------
\* growDelay without the spacing
calculateDelaysNoSpacing(hackTime, growTime, weakenTime, taskDelay) ==
  LET hackDelay == weakenTime - hackTime - taskDelay
      weaken1Delay == 0
      growDelay == weakenTime - growTime
      weaken2Delay == taskDelay * 2
  IN <<hackDelay, weaken1Delay, growDelay, weaken2Delay>>

\* the anchor put first in the vector
calculateDelaysAnchorFirst(hackTime, growTime, weakenTime, taskDelay) ==
  LET hackDelay == weakenTime - hackTime - taskDelay
      weaken1Delay == 0
      growDelay == weakenTime - growTime + taskDelay
      weaken2Delay == taskDelay * 2
  IN <<weaken1Delay, hackDelay, growDelay, weaken2Delay>>

calculateDelays(hackTime, growTime, weakenTime, taskDelay) ==
  LET hackDelay == weakenTime - hackTime - taskDelay
      weaken1Delay == 0
      growDelay == weakenTime - growTime + taskDelay
      weaken2Delay == taskDelay * 2
  IN <<hackDelay, weaken1Delay, growDelay, weaken2Delay>>

\* the caller takes the returned value; the next call starts afresh
Returned ==
  /\ call # "none"
  /\ call' = "none"
  /\ readings' = [none |-> TRUE]
  /\ apiCalls' = {}
  /\ ret' = Return(<<>>)
  /\ UNCHANGED <<target, heap, metrics>>

CalculateDelays ==
  \E h \in Times, g \in Times, w \in Times :
    /\ call = "none"
    /\ call' = "calculateDelays"
    /\ readings' = [hackTime |-> h, growTime |-> g, weakenTime |-> w]
    /\ apiCalls' = {"getHackTime", "getGrowTime", "getWeakenTime"}
    /\ ret' = Return(calculateDelays(h, g, w, metrics.taskDelay))
    /\ UNCHANGED <<target, heap, metrics>>

\* ---- getHackEffect / getHackThreads -----------------------------------
\* rd: what ns returned:  formulasHome, and either hackPercent (oracle) or
\* playerSkill, requiredSkill, hackMoneyMult (analytic)
getHackEffect(tgt, rd) ==
  LET hackDifficulty == tgt.hackDifficulty
      difficultyMultiplier == Fin(FullSec - hackDifficulty, 100)
      hackStealMultiplier == Whole(rd.hackMoneyMult)
      playerSkill == rd.playerSkill
      requiredSkill == rd.requiredSkill
      skillMultiplier == Fin(playerSkill - (requiredSkill - 1), playerSkill)
      percentMoneyStolen ==
        Div(Mul(Mul(difficultyMultiplier, skillMultiplier), hackStealMultiplier),
            Whole(balanceFactor))
  IN clamp(percentMoneyStolen, 0, 1)

hackPercentOf(tgt, rd) ==
  IF rd.formulasHome THEN rd.hackPercent ELSE getHackEffect(tgt, rd)

getHackThreads(greed, tgt, rd) ==
  MathFloor(Div(greed, hackPercentOf(tgt, rd)))

getHackThreadsCalls(rd) ==
  IF rd.formulasHome
    THEN {"fileExists", "getPlayer", "formulas.hacking.hackPercent"}
    ELSE {"fileExists", "getPlayer", "getServerRequiredHackingLevel"}

\* ---- growthAnalyzeDynamic -----------------------------------------------
\* multiplier = mn / md, both whole;  rd: securityLevel, serverGrowth, growMult
growthAnalyzeDynamic(rd, mn, md) ==
  LET hackDifficulty == rd.securityLevel
      adjustedGrowthRate == Min(BaseGrowthMicro \div hackDifficulty, GrowthCapMicro)
      \* Math.log(multiplier) / (Math.log(rate) * growMultiplier * growth / 100)
  IN Fin(MathLogMilli(mn, md) * 1000 * 100,
         MathLogNearOneMicro(adjustedGrowthRate) * rd.growMult * rd.serverGrowth)

growthAnalyzeDynamicCalls ==
  {"getServerSecurityLevel", "getServerGrowth", "getPlayer"}

\* ---- calculateThreads ---------------------------------------------------
\* rounding down instead of up
hackWeakenThreadsFloor(hackThreads) ==
  MathFloor(Div(hackThreads, Whole(HackPerWeaken)))

hackWeakenThreadsOf(hackThreads) ==
  MathCeil(Div(hackThreads, Whole(HackPerWeaken)))

\* 12 instead of 12.5
growWeakenThreadsTwelve(growThreads) ==
  MathCeil(Div(growThreads, Whole(12)))

growWeakenThreadsOf(growThreads) ==
  MathCeil(Div(growThreads, Fin(GrowPerWeakenTwice, 2)))

calculateThreads(greed, tgt, rd) ==
  LET hackThreads == getHackThreads(greed, tgt, rd.hack)
      hackWeakenThreads == hackWeakenThreadsOf(hackThreads)
      \* multiplier 1 + metrics.greed
      growThreads == MathFloor(growthAnalyzeDynamic(rd.grow, greed.d + greed.n, greed.d))
      growWeakenThreads == growWeakenThreadsOf(growThreads)
  IN <<hackThreads, hackWeakenThreads, growThreads, growWeakenThreads>>

OraclePercents == {Fin(0, 1000), Fin(50, 1000), Fin(1000, 1000)}

HackReadings ==
  [formulasHome : {TRUE}, hackPercent : OraclePercents]
  \cup [formulasHome : {FALSE}, playerSkill : 1..MaxSkill,
        requiredSkill : 1..(MaxSkill + 1), hackMoneyMult : 1..MaxMult]

AnalyticGrowReadings ==
  [securityLevel : SecLevels,
   serverGrowth : {GrowthStep * i : i \in 1..MaxGrowth},
   growMult : 1..MaxMult]

GetHackThreads ==
  \E rd \in HackReadings :
    /\ call = "none"
    /\ call' = "getHackThreads"
    /\ readings' = rd
    /\ apiCalls' = getHackThreadsCalls(rd)
    /\ ret' = Return(getHackThreads(metrics.greed, target, rd))
    /\ UNCHANGED <<target, heap, metrics>>

CalculateThreads ==
  \E rh \in HackReadings, rg \in AnalyticGrowReadings :
    LET rd == [hack |-> rh, grow |-> rg] IN
    /\ call = "none"
    /\ call' = "calculateThreads"
    /\ readings' = rd
    /\ apiCalls' = getHackThreadsCalls(rh) \cup growthAnalyzeDynamicCalls
    /\ ret' = Return(calculateThreads(metrics.greed, target, rd))
    /\ UNCHANGED <<target, heap, metrics>>

\* ---- createMockServer / getGrowThreads --------------------------------
\* the object ns.formulas.mockServer() hands out
MockDefault == [moneyAvailable |-> 0, hackDifficulty |-> 1]

\* hp: the heap of Server objects;  result: the heap afterwards and the
\* reference returned
createMockServer(hp, tgt) ==
  LET allocated == [o \in DOMAIN hp \cup {"mock"} |->
                      IF o = "mock" THEN MockDefault ELSE hp[o]]
      \* mockServer = target.server: the variable now names the target's object
      mockServer == tgt.server
      money == tgt.moneyAvailable
      sec == tgt.hackDifficulty
      written == [allocated EXCEPT ![mockServer] =
                    [moneyAvailable |-> money, hackDifficulty |-> sec]]
  IN [heap |-> written, ref |-> mockServer]

\* rd: formulasHere, and either growThreads (what the oracle answers) or the
\* readings of growthAnalyzeDynamic
getGrowThreads(tgt, rd) ==
  LET maxMoney == tgt.moneyMax
      money == tgt.moneyAvailable
      growThreads == IF rd.formulasHere
                       THEN rd.growThreads
                       ELSE growthAnalyzeDynamic(rd, maxMoney, Max(money, 1))
  IN MathCeil(growThreads)

getGrowThreadsHeap(hp, tgt, rd) ==
  IF rd.formulasHere THEN createMockServer(hp, tgt).heap ELSE hp

getGrowThreadsCalls(rd) ==
  IF rd.formulasHere
    THEN {"fileExists", "formulas.mockServer", "getPlayer", "formulas.hacking.growThreads"}
    ELSE {"fileExists"} \cup growthAnalyzeDynamicCalls

OracleGrowThreads == {Fin(n, 2) : n \in 0..MaxOracleGrow}

GrowReadings ==
  [formulasHere : {TRUE}, growThreads : OracleGrowThreads]
  \cup [formulasHere : {FALSE}, securityLevel : SecLevels,
        serverGrowth : {GrowthStep * i : i \in 1..MaxGrowth},
        growMult : 1..MaxMult]

\* objects no variable refers to any more are collected when the call returns
Reachable(hp, tgt) == [o \in {tgt.server} |-> hp[o]]

GetGrowThreads ==
  \E rd \in GrowReadings :
    /\ call = "none"
    /\ call' = "getGrowThreads"
    /\ readings' = rd
    /\ apiCalls' = getGrowThreadsCalls(rd)
    /\ ret' = Return(getGrowThreads(target, rd))
    /\ heap' = Reachable(getGrowThreadsHeap(heap, target, rd), target)
    /\ UNCHANGED <<target, metrics>>

Next ==
  CalculateDelays \/ GetHackThreads \/ CalculateThreads \/ GetGrowThreads \/ Returned

Spec == Init /\ [][Next]_vars

\* ---- the two weaken ratios on their own ---------------------------------
InitRatios ==
  /\ target = [server |-> "srv", moneyMax |-> 1, moneyAvailable |-> 1, hackDifficulty |-> 1]
  /\ heap = [o \in {"srv"} |-> [moneyAvailable |-> 1, hackDifficulty |-> 1]]
  /\ metrics = [greed |-> Fin(1, GreedDen), taskDelay |-> 1]
  /\ call = "none"
  /\ readings = [none |-> TRUE]
  /\ apiCalls = {}
  /\ ret = Return(<<>>)

HackWeakenThreads ==
  \E t \in 0..MaxThreads :
    /\ call = "none"
    /\ call' = "hackWeakenThreads"
    /\ readings' = [threads |-> t]
    /\ apiCalls' = {}
    /\ ret' = Return(hackWeakenThreadsOf(Whole(t)))
    /\ UNCHANGED <<target, heap, metrics>>

GrowWeakenThreads ==
  \E t \in 0..MaxThreads :
    /\ call = "none"
    /\ call' = "growWeakenThreads"
    /\ readings' = [threads |-> t]
    /\ apiCalls' = {}
    /\ ret' = Return(growWeakenThreadsOf(Whole(t)))
    /\ UNCHANGED <<target, heap, metrics>>

NextRatios == HackWeakenThreads \/ GrowWeakenThreads \/ Returned

SpecRatios == InitRatios /\ [][NextRatios]_vars

\* ======================= properties ======================================

\* C1: the delays returned by calculateDelays make the four operations land
\* in the order hack, weaken1, grow, weaken2, strictly increasing, each at
\* least taskDelay after the one before.
LandingOrder ==
  call = "calculateDelays" =>
    LET d == ret.val
        S == metrics.taskDelay
        hackLands == d[1] + readings.hackTime
        weaken1Lands == d[2] + readings.weakenTime
        growLands == d[3] + readings.growTime
        weaken2Lands == d[4] + readings.weakenTime
    IN /\ hackLands < weaken1Lands /\ weaken1Lands - hackLands >= S
       /\ weaken1Lands < growLands /\ growLands - weaken1Lands >= S
       /\ growLands < weaken2Lands /\ weaken2Lands - growLands >= S

LandingOrderWitness ==
  /\ call = "calculateDelays"
  /\ readings = [hackTime |-> 1, growTime |-> 2, weakenTime |-> 3]
  /\ metrics.taskDelay = 1
  /\ ret.val = <<1, 0, 2, 2>>

\* C2: each of the four thread counts returned by calculateThreads is a
\* whole number >= 1 (stated for the calls whose extraction count is finite).
ThreadsAtLeastOne ==
  (call = "calculateThreads" /\ ret.val[1].k = "fin") =>
    \A i \in 1..4 : ret.val[i].k = "fin" /\ ret.val[i].d = 1 /\ ret.val[i].n >= 1

\* C3: when the clamped analytic extraction fraction is 0 (node fully
\* hardened, or player skill below the required level), getHackThreads ends
\* in the failure DegenerateModel and returns no thread count.
ZeroFractionRaises ==
  (/\ call = "getHackThreads"
   /\ ~readings.formulasHome
   /\ getHackEffect(target, readings).n = 0) =>
    (ret.kind = "throw" /\ ret.val = "DegenerateModel")

\* C4: when a computed delay is negative, calculateDelays ends in the failure
\* NegativeDelay and returns no delay vector.
NegativeDelayRaised ==
  (/\ call = "calculateDelays"
   /\ \/ readings.weakenTime < readings.hackTime + metrics.taskDelay
      \/ readings.weakenTime + metrics.taskDelay < readings.growTime) =>
    (ret.kind = "throw" /\ ret.val = "NegativeDelay")

\* C5: with Formulas.exe available, calculateThreads asks the oracle for both
\* the extraction fraction and the replenish threads and runs neither
\* analytic formula.
OracleTakesPrecedence ==
  (call = "calculateThreads" /\ readings.hack.formulasHome) =>
    /\ "formulas.hacking.hackPercent" \in apiCalls
    /\ "formulas.hacking.growThreads" \in apiCalls
    /\ apiCalls \cap {"getServerRequiredHackingLevel", "getServerGrowth"} = {}

\* C6: the replenish count of calculateThreads is the ceiling of the thread
\* requirement for the multiplier moneyMax / max(moneyAvailable, 1).
ReplenishIsCeilForYieldMultiplier ==
  call = "calculateThreads" =>
    ret.val[3] = MathCeil(growthAnalyzeDynamic(readings.grow, target.moneyMax,
                                               Max(target.moneyAvailable, 1)))

\* C7 as claimed: the delay vector has four entries and its first is 0.
FirstDelayIsZero ==
  call = "calculateDelays" => (Len(ret.val) = 4 /\ ret.val[1] = 0)

\* C7: the delay vector and the thread vector have four entries; the second
\* delay (weaken1, the anchor) is always 0; the first (hack) is 0 exactly
\* when weakenTime = hackTime + taskDelay.
AnchorDelayIsZero ==
  /\ call = "calculateDelays" =>
       /\ Len(ret.val) = 4
       /\ ret.val[2] = 0
       /\ (ret.val[1] = 0) <=>
            (readings.weakenTime = readings.hackTime + metrics.taskDelay)
  /\ call = "calculateThreads" => Len(ret.val) = 4

AnchorDelayIsZeroWitness ==
  /\ call = "calculateDelays"
  /\ readings.weakenTime = 3 /\ readings.hackTime = 1 /\ metrics.taskDelay = 1
  /\ ret.val[1] = 1
  /\ ret.val[2] = 0

\* C8: the weaken count for t hack threads is the least whole w with
\* 25 * w >= t; t = 0 gives 0, t = 25 gives 1, t = 26 gives 2.
HackWeakenIsCeilOf25 ==
  call = "hackWeakenThreads" =>
    LET t == readings.threads
        w == ret.val
    IN /\ w.k = "fin" /\ w.d = 1
       /\ 25 * w.n >= t
       /\ 25 * (w.n - 1) < t
       /\ t = 0 => w.n = 0
       /\ t = 25 => w.n = 1
       /\ t = 26 => w.n = 2

HackWeakenWitness ==
  call = "hackWeakenThreads" /\ readings.threads = 26 /\ ret.val = Whole(2)

\* C9: the weaken count for t grow threads is the least whole w with
\* 25 * w >= 2 * t; t = 0 gives 0, t = 12 gives 1, t = 13 gives 2.
GrowWeakenIsCeilOf12Half ==
  call = "growWeakenThreads" =>
    LET t == readings.threads
        w == ret.val
    IN /\ w.k = "fin" /\ w.d = 1
       /\ 25 * w.n >= 2 * t
       /\ 25 * (w.n - 1) < 2 * t
       /\ t = 0 => w.n = 0
       /\ t = 12 => w.n = 1
       /\ t = 13 => w.n = 2

GrowWeakenWitness ==
  call = "growWeakenThreads" /\ readings.threads = 13 /\ ret.val = Whole(2)

\* C10: on the oracle path getGrowThreads leaves the Server object of the
\* target as it was before the call.
MockLeavesTargetUnchanged ==
  [][(call' = "getGrowThreads" /\ readings'.formulasHere) =>
       heap'[target.server] = heap[target.server]]_vars
====
